---- MODULE Spec2Model ----
(***************************************************************************)
(* The onyx front end: the recursive-descent parser of src/parser/mod.rs   *)
(* run as a machine with an explicit call stack, and the severity model of *)
(* src/report.rs.                                                          *)
(*                                                                         *)
(* The cursor `index` is 0-based as in the code; TLA+ sequences are        *)
(* 1-based, so the token under the cursor is tokens[index + 1].            *)
(* Option<T> is a sequence: None is << >> and Some(v) is << v >>.          *)
(* A &str is the sequence of its characters.                               *)
(***************************************************************************)
EXTENDS Integers, Sequences, FiniteSets, TLC

VARIABLES
    \* the parser: its tokens, its cursor, the call stack, the value just
    \* returned, the AST built by parse, the reports handed to the handler
    tokens, index, stack, ret, ast, logs,
    \* "run", "done", or the panic that ended the run
    status,
    \* rendering: the reports still to render, a record of each rendering,
    \* and the process-wide error counter
    pending, rendered, ERR_COUNT,
    \* building: the report under construction and the arguments of the
    \* span calls made on it so far
    draft, calls,
    \* the driver: where main is, and the exit code once the process ended
    main

vars == <<tokens, index, stack, ret, ast, logs, status, pending, rendered,
          ERR_COUNT, draft, calls, main>>

(***************************************************************************)
(* Bounds of the explored inputs.                                          *)
(***************************************************************************)
\* longest arbitrary token sequence (before the EOF token)
MaxLen == 2
\* most export/extern modifiers in front of a declaration
MaxMods == 2
\* most well-formed declarations after a malformed one
MaxDecls == 2
\* most reports rendered in one run
MaxReports == 2
\* most span calls on one report
MaxSpanCalls == 2

None == << >>
Some(v) == << v >>

(***************************************************************************)
(* Texts (`Token::text`).                                                  *)
(***************************************************************************)
Str_a     == <<"a">>
Str_b     == <<"b">>
Str_x     == <<"x">>
Str_f     == <<"f">>
Str_add   == <<"a", "d", "d">>
Str_main  == <<"m", "a", "i", "n">>
Str_u32   == <<"u", "3", "2">>
Str_u8    == <<"u", "8">>
Str_i8    == <<"i", "8">>
Str_u     == <<"u">>
Str_ux    == <<"u", "x">>
Str_foo   == <<"f", "o", "o">>
Str_buf   == <<"b", "u", "f">>
Str_int   == <<"i", "n", "t">>
Str_Vec   == <<"V", "e", "c">>
Str_T     == <<"T">>
Str_void  == <<"v", "o", "i", "d">>
Str_never == <<"n", "e", "v", "e", "r">>
Str_opt   == <<"o", "p", "t">>
Str_mut   == <<"m", "u", "t">>
Str_usize == <<"u", "s", "i", "z", "e">>
Str_isize == <<"i", "s", "i", "z", "e">>
Str_999999 == <<"9", "9", "9", "9", "9", "9">>
Str_12    == <<"1", "2">>
Str_1a    == <<"1", "a">>
\* the literal texts a\tb, a\ (trailing backslash) and \q (no such escape)
Str_atb   == <<"a", "\\", "t", "b">>
Str_aBs   == <<"a", "\\">>
Str_Bsq   == <<"\\", "q">>

(***************************************************************************)
(* Tokens.  A symbol is a token without its span; MkTokens gives the i-th  *)
(* symbol (0-based) the span [i, i+1).                                     *)
(***************************************************************************)
Sym(k, t) == [kind |-> k, text |-> t]
Fix(k)    == Sym(k, << >>)
Id(t)     == Sym("Identifier", t)

KWFn == Fix("KWFn")
KWExport == Fix("KWExport")
KWExtern == Fix("KWExtern")
KWLet == Fix("KWLet")
KWRet == Fix("KWRet")
LParen == Fix("LParen")
RParen == Fix("RParen")
LBrace == Fix("LBrace")
RBrace == Fix("RBrace")
LBracket == Fix("LBracket")
RBracket == Fix("RBracket")
Semicolon == Fix("Semicolon")
Colon == Fix("Colon")
Comma == Fix("Comma")
Equals == Fix("Equals")
Dollar == Fix("Dollar")
Star == Fix("Star")
Plus == Fix("Plus")
EOF == Fix("EOF")
StrLit(t) == Sym("StringLiteral", t)
IntLit(t) == Sym("DecimalIntLiteral", t)

Span(s, e) == [start |-> s, end |-> e]

MkTokens(syms) ==
    [i \in 1..Len(syms) |->
        [kind |-> syms[i].kind, text |-> syms[i].text, span |-> Span(i - 1, i)]]

\* Span::extend: the minimal span covering both
extend(s1, s2) ==
    Span(IF s1.start < s2.start THEN s1.start ELSE s2.start,
         IF s1.end > s2.end THEN s1.end ELSE s2.end)

(***************************************************************************)
(* Reports (src/report.rs).                                                *)
(***************************************************************************)
ReportKind_untitled(kind) ==
    [kind |-> kind, title |-> None, span |-> None, span_mask |-> << >>,
     label |-> None]

\* a title is kept as its parts: the fixed text, then the formatted argument
ReportKind_title(kind, t) ==
    [kind |-> kind, title |-> Some(t), span |-> None, span_mask |-> << >>,
     label |-> None]

\* enum HighlightKind; a mask is a sequence of these
HighlightKind == {"Empty", "Caret", "Ghost"}

Max(a, b) == IF a >= b THEN a ELSE b

\* span::combine: position by position over the longer mask, a mark of the
\* first mask is kept, an Empty one gives way to the second mask
combine(m1, m2) ==
    [i \in 1..Max(Len(m1), Len(m2)) |->
        IF i <= Len(m1) /\ m1[i] # "Empty" THEN m1[i]
        ELSE IF i <= Len(m2) THEN m2[i]
        ELSE "Empty"]

\* Report::span with the location of every call kept (the last call wins)
Report_span_last(report, s, mask) ==
    [report EXCEPT !.span = Some(s),
                   !.span_mask = combine(report.span_mask, mask)]

\* Report::span: the first call gives the report its location, every call
\* combines its mask into the report's
Report_span(report, s, mask) ==
    [report EXCEPT !.span = IF report.span = None THEN Some(s) ELSE report.span,
                   !.span_mask = combine(report.span_mask, mask)]

\* Report::span called with a plain Span, as the parser does (no marks)
Report_at(report, s) == Report_span(report, s, << >>)

Report_label(report, l) == [report EXCEPT !.label = Some(l)]

\* enum ReportKind, in declaration order (the derived PartialOrd)
ReportKinds ==
    <<"_NOTE_", "_WARNING_", "_ERROR_", "ArgumentParserError",
      "UnexpectedCharacter", "UnterminatedMultilineComment",
      "UnterminatedStringLiteral", "UnterminatedCharLiteral",
      "EmptyCharLiteral", "UndefinedMacro", "InvalidTag",
      "ExceededRecursionLimit", "SelfReferentialMacro", "UnexpectedToken",
      "UnexpectedEOF", "InvalidEscapeSequence", "DuplicateAttribute",
      "RegisterWithinHeap", "MismatchedDelimeter", "IOError", "SyntaxError",
      "_FATAL_">>

ReportKind == {ReportKinds[i] : i \in 1..Len(ReportKinds)}

\* the discriminant of a kind
discriminant(kind) == (CHOOSE i \in 1..Len(ReportKinds) : ReportKinds[i] = kind) - 1

\* enum Level with repr(u8), in declaration order
Levels == <<"Fatal", "Error", "Warn", "Note", "Silent">>

Level_as_u8(level) == (CHOOSE i \in 1..Len(Levels) : Levels[i] = level) - 1

\* Level_from with the guards tried in the opposite order
Level_from_reversed(kind) ==
    IF discriminant(kind) > discriminant("_NOTE_") THEN "Note"
    ELSE IF discriminant(kind) > discriminant("_WARNING_") THEN "Warn"
    ELSE IF discriminant(kind) > discriminant("_ERROR_") THEN "Error"
    ELSE IF discriminant(kind) > discriminant("_FATAL_") THEN "Fatal"
    ELSE "Silent"

\* impl From<ReportKind> for Level: the first guard that holds
Level_from(kind) ==
    IF discriminant(kind) > discriminant("_FATAL_") THEN "Fatal"
    ELSE IF discriminant(kind) > discriminant("_ERROR_") THEN "Error"
    ELSE IF discriminant(kind) > discriminant("_WARNING_") THEN "Warn"
    ELSE IF discriminant(kind) > discriminant("_NOTE_") THEN "Note"
    ELSE "Silent"

\* Report::level
Report_level(report) == Level_from(report.kind)

(***************************************************************************)
(* Results.  `from` is the function that returned.                         *)
(***************************************************************************)
Ok(from, v)  == [ok |-> TRUE, from |-> from, val |-> v]
Err(from, r) == [ok |-> FALSE, from |-> from, val |-> r]

(***************************************************************************)
(* Text functions.                                                         *)
(***************************************************************************)
Digits == <<"0", "1", "2", "3", "4", "5", "6", "7", "8", "9">>

IsDigit(c) == \E d \in 1..10 : Digits[d] = c

DigitVal(c) == (CHOOSE d \in 1..10 : Digits[d] = c) - 1

RECURSIVE DecVal(_)
DecVal(s) ==
    IF Len(s) = 0 THEN 0
    ELSE 10 * DecVal(SubSeq(s, 1, Len(s) - 1)) + DigitVal(s[Len(s)])

AllDigits(s) == \A i \in 1..Len(s) : IsDigit(s[i])

Tail1(s) == SubSeq(s, 2, Len(s))

\* n[1..].parse() of an unsigned width: an optional '+', then one or
\* more decimal digits.  Some(value), or None for the parse error.
parse_width(s) ==
    LET d == IF Len(s) > 0 /\ s[1] = "+" THEN Tail1(s) ELSE s
    IN  IF Len(d) > 0 /\ AllDigits(d) THEN Some(DecVal(d)) ELSE None

\* text.parse::<iBig>(): decimal text to a big integer, None when rejected
parse_iBig(s) ==
    IF Len(s) > 0 /\ AllDigits(s) THEN Some(DecVal(s)) ELSE None

\* parse_char: the escape letters with a control code; every other
\* character reaches unreachable!() and has no entry here
EscapeTable ==
    [c \in {"0", "@", "A", "B", "C", "D", "E", "F", "G", "a", "H", "b",
            "I", "t", "J", "n", "K", "v", "L", "f", "M", "r", "N", "O",
            "P", "Q", "R", "S", "T", "U", "V", "W", "X", "Y", "Z", "[",
            "e", "/", "]", "^", "_", "?"} |->
        CASE c \in {"0", "@"} -> 0
          [] c = "A" -> 1
          [] c = "B" -> 2
          [] c = "C" -> 3
          [] c = "D" -> 4
          [] c = "E" -> 5
          [] c = "F" -> 6
          [] c \in {"G", "a"} -> 7
          [] c \in {"H", "b"} -> 8
          [] c \in {"I", "t"} -> 9
          [] c \in {"J", "n"} -> 10
          [] c \in {"K", "v"} -> 11
          [] c \in {"L", "f"} -> 12
          [] c \in {"M", "r"} -> 13
          [] c = "N" -> 14
          [] c = "O" -> 15
          [] c = "P" -> 16
          [] c = "Q" -> 17
          [] c = "R" -> 18
          [] c = "S" -> 19
          [] c = "T" -> 20
          [] c = "U" -> 21
          [] c = "V" -> 22
          [] c = "W" -> 23
          [] c = "X" -> 24
          [] c = "Y" -> 25
          [] c = "Z" -> 26
          [] c \in {"[", "e"} -> 27
          [] c = "/" -> 28
          [] c = "]" -> 29
          [] c = "^" -> 30
          [] c = "_" -> 31
          [] c = "?" -> 127]

parse_char_defined(c) == c \in DOMAIN EscapeTable

\* a resolved escape is the character with that code, [ctl |-> code]; a
\* character copied from the source is [chr |-> c]
parse_char(c) == [ctl |-> EscapeTable[c]]

\* the escape loop of parse_expr over text[i..], with the flag and the
\* text built so far: [panic, text]
RECURSIVE resolve_escapes(_, _, _, _)
resolve_escapes(text, i, escape_flag, new_text) ==
    IF i > Len(text) THEN [panic |-> FALSE, text |-> new_text]
    ELSE IF escape_flag
         THEN IF parse_char_defined(text[i])
              THEN resolve_escapes(text, i + 1, FALSE,
                                   Append(new_text, parse_char(text[i])))
              ELSE [panic |-> TRUE, text |-> new_text]
         ELSE IF text[i] = "\\"
              THEN resolve_escapes(text, i + 1, TRUE, new_text)
              ELSE resolve_escapes(text, i + 1, FALSE,
                                   Append(new_text, [chr |-> text[i]]))

(***************************************************************************)
(* The machine.  A frame is one activation of a parser function: the       *)
(* function, the place in it where it resumes, and its locals.  `ret` is   *)
(* the value just returned to the frame on top of the stack.               *)
(***************************************************************************)
Frame(fn) ==
    [fn |-> fn, pc |-> "start", tok |-> 0, name |-> None, acc |-> << >>,
     arg |-> None, ty |-> None, via |-> ""]

Running == status = "run"
Top == stack[Len(stack)]
At(fn, pc) == Running /\ Len(stack) > 0 /\ Top.fn = fn /\ Top.pc = pc
Returned == Len(ret) = 1
Pop == SubSeq(stack, 1, Len(stack) - 1)

\* self.tokens[i] is in range
InBounds(i) == i < Len(tokens)
\* Parser::current with the cursor at i
current(i) == tokens[i + 1]
\* Parser::advance
advance(i) == i + 1

OutOfBounds == "panic: index out of bounds"
Unreachable == "panic: unreachable"
PeekAssert  == "panic: peek() out of bounds"

Set(i, st, r, a, l, s) ==
    /\ index' = i
    /\ stack' = st
    /\ ret' = r
    /\ ast' = a
    /\ logs' = l
    /\ status' = s
    /\ UNCHANGED <<tokens, pending, rendered, ERR_COUNT, draft, calls, main>>

Goto(i, f)    == Set(i, Append(Pop, f), None, ast, logs, status)
Call(i, f, g) == Set(i, Append(Append(Pop, f), g), None, ast, logs, status)
Return(i, r)  == Set(i, Pop, Some(r), ast, logs, status)
Panic(i, why) == Set(i, stack, None, ast, logs, why)
\* the `?` operator: the callee's Err leaves this function too
Propagate     == Return(index, Err(Top.fn, ret[1].val))

\* Parser::log
log(report) == Append(logs, report)

(***************************************************************************)
(* Parser::parse                                                           *)
(***************************************************************************)
parse ==
    /\ At("parse", "start")
    /\ IF Len(tokens) = 0
       THEN Set(index, << >>, None, ast, logs, "done")
       ELSE Goto(0, [Top EXCEPT !.pc = "loop"])

\* the head of the top-level loop
parse_loop ==
    /\ At("parse", "loop")
    /\ IF ~InBounds(index) THEN Panic(index, OutOfBounds)
       ELSE IF current(index).kind = "EOF"
            THEN Set(index, << >>, None, ast, logs, "done")
            ELSE Call(index, [Top EXCEPT !.pc = "global", !.tok = index],
                      Frame("parse_global"))

\* the match on parse_global's result
parse_match ==
    /\ At("parse", "global") /\ Returned
    /\ IF ret[1].ok
       THEN Set(index, Append(Pop, [Top EXCEPT !.pc = "loop"]), None,
                Append(ast, ret[1].val), logs, status)
       ELSE LET l == log(ret[1].val) IN
            IF ~InBounds(index)
            THEN Set(index, stack, None, ast, l, OutOfBounds)
            ELSE IF current(index).kind = "EOF"
                 THEN Set(index, << >>, None, ast, l, "done")
                 ELSE Set(index, Append(Pop, [Top EXCEPT !.pc = "skip"]),
                          None, ast, l, status)

\* one turn of the skipping loop, or the advance that follows it
parse_skip ==
    /\ At("parse", "skip")
    /\ IF ~InBounds(index) THEN Panic(index, OutOfBounds)
       ELSE IF current(index).kind \notin {"Semicolon", "RBrace"}
            THEN Goto(advance(index), Top)
            ELSE Goto(advance(index), [Top EXCEPT !.pc = "loop"])

(***************************************************************************)
(* Parser::parse_global                                                    *)
(***************************************************************************)
Attr(kind, span) == [attr |-> kind, span |-> span]

parse_global ==
    /\ At("parse_global", "start")
    /\ IF ~InBounds(index) THEN Panic(index, OutOfBounds)
       ELSE LET token == current(index) IN
            CASE token.kind = "KWFn" ->
                    Goto(index, Frame("parse_func"))
              [] token.kind \in {"KWExtern", "KWExport"} ->
                    LET i1 == advance(index) IN
                    IF ~InBounds(i1) THEN Panic(i1, OutOfBounds)
                    ELSE IF current(i1).kind = "EOF"
                         THEN Return(i1, Err("parse_global",
                                  Report_at(ReportKind_untitled("UnexpectedEOF"),
                                              token.span)))
                         ELSE Call(i1, [Top EXCEPT !.pc = "attrs", !.tok = index],
                                   Frame("parse_global"))
              [] OTHER ->
                    Return(advance(index), Err("parse_global",
                        Report_at(ReportKind_title("UnexpectedToken",
                                                     <<"got", token.kind>>),
                                    token.span)))

\* parse_global_attrs with the attribute list replaced, not extended
parse_global_attrs_replacing ==
    /\ At("parse_global", "attrs") /\ Returned
    /\ IF ~ret[1].ok THEN Propagate
       ELSE LET r == ret[1].val
                token == current(Top.tok)
            IN  Return(index, Ok("parse_global",
                    [r EXCEPT
                        !.attrs = <<Attr(IF token.kind = "KWExtern"
                                         THEN "Extern" ELSE "Export", token.span)>>,
                        !.span = extend(token.span, r.span)]))

\* after the inner parse_global: the modifier becomes an attribute
parse_global_attrs ==
    /\ At("parse_global", "attrs") /\ Returned
    /\ IF ~ret[1].ok THEN Propagate
       ELSE LET r == ret[1].val
                token == current(Top.tok)
            IN  IF r.node = "Func"
                THEN Return(index, Ok("parse_global",
                        [r EXCEPT
                            !.attrs = Append(r.attrs,
                                Attr(IF token.kind = "KWExtern"
                                     THEN "Extern" ELSE "Export", token.span)),
                            !.span = extend(token.span, r.span)]))
                ELSE Panic(index, Unreachable)

(***************************************************************************)
(* Parser::parse_func                                                      *)
(***************************************************************************)
Spanned(text, span) == [text |-> text, span |-> span]

UnexpectedToken(t, span) ==
    Report_at(ReportKind_title("UnexpectedToken", t), span)

\* Node::Func { .. }.span(token.span.extend(&self.current().span)), where
\* `token` is the one bound right after the first advance (the name)
FuncNode(f, ty, body, i) ==
    [node |-> "Func", name |-> f.name[1], args |-> f.acc, ret |-> ty,
     body |-> body, attrs |-> << >>,
     span |-> extend(current(f.tok).span, current(i).span)]

\* the end of parse_func, with the cursor at i
FuncReturn(f, ty, body, i) ==
    IF ~InBounds(i) THEN Panic(i, OutOfBounds)
    ELSE Return(i, Ok("parse_func", FuncNode(f, ty, body, i)))

\* `fn`, the name and the opening parenthesis
parse_func ==
    /\ At("parse_func", "start")
    /\ LET i1 == advance(index) IN
       IF ~InBounds(i1) THEN Panic(i1, OutOfBounds)
       ELSE LET token == current(i1) IN
            IF token.kind # "Identifier"
            THEN Return(i1, Err("parse_func",
                     UnexpectedToken(<<"Expected identifier">>, token.span)))
            ELSE LET i2 == advance(i1) IN
                 IF ~InBounds(i2) THEN Panic(i2, OutOfBounds)
                 ELSE IF current(i2).kind # "LParen"
                      THEN Return(i2, Err("parse_func",
                               UnexpectedToken(<<"Expected '('">>,
                                               current(i2).span)))
                      ELSE Goto(i2, [Top EXCEPT !.pc = "args", !.tok = i1,
                                  !.name = Some(Spanned(token.text, token.span))])

\* one turn of the parameter loop, up to the parameter's type
parse_func_args ==
    /\ At("parse_func", "args")
    /\ LET i1 == advance(index) IN
       IF ~InBounds(i1) THEN Panic(i1, OutOfBounds)
       ELSE LET token == current(i1) IN
            CASE token.kind = "RParen" ->
                    Goto(i1, [Top EXCEPT !.pc = "body"])
              [] token.kind = "Identifier" ->
                    LET i2 == advance(i1) IN
                    IF ~InBounds(i2) THEN Panic(i2, OutOfBounds)
                    ELSE IF current(i2).kind # "Colon"
                         THEN Return(i2, Err("parse_func",
                                  UnexpectedToken(<<"Expected ':'">>,
                                                  current(i2).span)))
                         ELSE Call(advance(i2),
                                   [Top EXCEPT !.pc = "arg", !.arg =
                                       Some(Spanned(token.text, token.span))],
                                   Frame("parse_type"))
              [] OTHER ->
                    Return(i1, Err("parse_func",
                        UnexpectedToken(<<"Expected identifier">>, token.span)))

\* the parameter is pushed; `)` ends the list, anything else is skipped
\* by the advance at the head of the next turn
parse_func_arg ==
    /\ At("parse_func", "arg") /\ Returned
    /\ IF ~ret[1].ok THEN Propagate
       ELSE LET f == [Top EXCEPT !.acc = Append(Top.acc,
                                     <<Top.arg[1], ret[1].val>>),
                                 !.arg = None]
            IN  IF ~InBounds(index) THEN Panic(index, OutOfBounds)
                ELSE IF current(index).kind = "RParen"
                     THEN Goto(index, [f EXCEPT !.pc = "body"])
                     ELSE Goto(index, [f EXCEPT !.pc = "args"])

\* the match on the token after `)`
parse_func_body ==
    /\ At("parse_func", "body")
    /\ LET i1 == advance(index) IN
       IF ~InBounds(i1) THEN Panic(i1, OutOfBounds)
       ELSE CASE current(i1).kind = "Colon" ->
                    Call(i1, [Top EXCEPT !.pc = "end", !.via = "stmt"],
                         Frame("parse_stmt"))
              [] current(i1).kind = "LBrace" ->
                    Call(i1, [Top EXCEPT !.pc = "end", !.via = "block"],
                         Frame("parse_block"))
              [] current(i1).kind = "Semicolon" ->
                    FuncReturn(Top, None, << >>, i1)
              [] OTHER ->
                    Call(i1, [Top EXCEPT !.pc = "ret"], Frame("parse_type"))

\* after the return type: the body marker is taken and matched
parse_func_ret ==
    /\ At("parse_func", "ret") /\ Returned
    /\ IF ~ret[1].ok THEN Propagate
       ELSE IF ~InBounds(index) THEN Panic(index, OutOfBounds)
       ELSE LET token == current(index)
                i1 == advance(index)
                f == [Top EXCEPT !.ty = Some(ret[1].val)]
            IN  CASE token.kind = "Colon" ->
                        Call(i1, [f EXCEPT !.pc = "end", !.via = "stmt"],
                             Frame("parse_stmt"))
                  [] token.kind = "LBrace" ->
                        Call(i1, [f EXCEPT !.pc = "end", !.via = "block"],
                             Frame("parse_block"))
                  [] token.kind = "Semicolon" ->
                        FuncReturn(f, f.ty, << >>, i1)
                  [] OTHER ->
                        Return(i1, Err("parse_func",
                            UnexpectedToken(<<"Expected '{', ';', or ':'">>,
                                            token.span)))

\* the body came back: a statement becomes a one-element body
parse_func_end ==
    /\ At("parse_func", "end") /\ Returned
    /\ IF ~ret[1].ok THEN Propagate
       ELSE FuncReturn(Top, Top.ty,
                IF Top.via = "stmt" THEN <<ret[1].val>> ELSE ret[1].val,
                index)

(***************************************************************************)
(* Parser::parse_block                                                     *)
(***************************************************************************)
\* self.peek(-1).unwrap().span with the cursor at i
peek_back_span(i) == tokens[i].span

\* the head of the block loop
parse_block ==
    /\ At("parse_block", "start")
    /\ IF ~InBounds(index) THEN Panic(index, OutOfBounds)
       ELSE CASE current(index).kind = "RBrace" ->
                    Return(advance(index), Ok("parse_block", Top.acc))
              [] current(index).kind = "EOF" ->
                    IF index - 1 < 0 THEN Panic(index, PeekAssert)
                    ELSE Return(index, Err("parse_block",
                             Report_at(ReportKind_title("UnexpectedEOF",
                                                          <<"Expected '}'">>),
                                         peek_back_span(index))))
              [] OTHER ->
                    Call(index, [Top EXCEPT !.pc = "stmt", !.tok = index],
                         Frame("parse_stmt"))

\* parse_block_stmt with the failed statement's report dropped
parse_block_stmt_silent ==
    /\ At("parse_block", "stmt") /\ Returned
    /\ IF ret[1].ok
       THEN Goto(index, [Top EXCEPT !.pc = "start",
                                   !.acc = Append(Top.acc, ret[1].val)])
       ELSE Goto(index, [Top EXCEPT !.pc = "skip"])

\* the match on parse_stmt's result
parse_block_stmt ==
    /\ At("parse_block", "stmt") /\ Returned
    /\ IF ret[1].ok
       THEN Goto(index, [Top EXCEPT !.pc = "start",
                                   !.acc = Append(Top.acc, ret[1].val)])
       ELSE Set(index, Append(Pop, [Top EXCEPT !.pc = "skip"]), None, ast,
                log(ret[1].val), status)

\* parse_block_skip with the `}` it stops at left for the caller
parse_block_skip_leaving ==
    /\ At("parse_block", "skip")
    /\ IF ~InBounds(index) THEN Panic(index, OutOfBounds)
       ELSE CASE current(index).kind = "RBrace" ->
                    Return(index, Ok("parse_block", Top.acc))
              [] current(index).kind = "Semicolon" ->
                    Goto(advance(index), [Top EXCEPT !.pc = "start"])
              [] OTHER ->
                    Goto(advance(index), Top)

\* parse_block_skip with the `;` it stops at left unconsumed
parse_block_skip_keeping ==
    /\ At("parse_block", "skip")
    /\ IF ~InBounds(index) THEN Panic(index, OutOfBounds)
       ELSE CASE current(index).kind = "RBrace" ->
                    Return(advance(index), Ok("parse_block", Top.acc))
              [] current(index).kind = "Semicolon" ->
                    Goto(index, [Top EXCEPT !.pc = "start"])
              [] OTHER ->
                    Goto(advance(index), Top)

\* one turn of the skipping loop, or the delimiter taken after it
parse_block_skip ==
    /\ At("parse_block", "skip")
    /\ IF ~InBounds(index) THEN Panic(index, OutOfBounds)
       ELSE CASE current(index).kind = "RBrace" ->
                    Return(advance(index), Ok("parse_block", Top.acc))
              [] current(index).kind = "Semicolon" ->
                    Goto(advance(index), [Top EXCEPT !.pc = "start"])
              [] OTHER ->
                    Goto(advance(index), Top)

(***************************************************************************)
(* Parser::parse_stmt                                                      *)
(***************************************************************************)
\* stmt_end with the terminator optional
stmt_end_optional(node, i) ==
    IF ~InBounds(i) THEN Panic(i, OutOfBounds)
    ELSE IF current(i).kind = "Semicolon"
         THEN Return(advance(i), Ok("parse_stmt", node))
         ELSE Return(i, Ok("parse_stmt", node))

\* the terminator: advance_if(Semicolon), else the error
stmt_end(node, i) ==
    IF ~InBounds(i) THEN Panic(i, OutOfBounds)
    ELSE IF current(i).kind = "Semicolon"
         THEN Return(advance(i), Ok("parse_stmt", node))
         ELSE Return(i, Err("parse_stmt",
                  UnexpectedToken(<<"Expected ';', got", current(i).kind>>,
                                  current(i).span)))

parse_stmt ==
    /\ At("parse_stmt", "start")
    /\ IF ~InBounds(index) THEN Panic(index, OutOfBounds)
       ELSE CASE current(index).kind = "KWLet" ->
                    LET i1 == advance(index)
                        i2 == advance(i1)
                        i3 == advance(i2)
                    IN  IF ~InBounds(i1) THEN Panic(i1, OutOfBounds)
                        ELSE IF current(i1).kind # "Identifier"
                        THEN Return(i1, Err("parse_stmt", UnexpectedToken(
                                 <<"Expected identifier, got", current(i1).kind>>,
                                 current(i1).span)))
                        ELSE IF ~InBounds(i2) THEN Panic(i2, OutOfBounds)
                        ELSE IF current(i2).kind # "Colon"
                        THEN Return(i2, Err("parse_stmt", UnexpectedToken(
                                 <<"Expected ':', got", current(i2).kind>>,
                                 current(i2).span)))
                        ELSE Call(i3, [Top EXCEPT !.pc = "let_ty", !.tok = i1],
                                  Frame("parse_type"))
              [] current(index).kind = "KWRet" ->
                    LET i1 == advance(index) IN
                    IF ~InBounds(i1) THEN Panic(i1, OutOfBounds)
                    ELSE IF current(i1).kind = "Semicolon"
                         THEN stmt_end([node |-> "Ret", expr |-> None,
                                        span |-> current(i1).span], i1)
                         ELSE Call(i1, [Top EXCEPT !.pc = "ret"],
                                   Frame("parse_expr"))
              [] OTHER ->
                    Call(index, [Top EXCEPT !.pc = "expr"], Frame("parse_expr"))

\* `let` after its type: `=` and the value
parse_stmt_let_ty ==
    /\ At("parse_stmt", "let_ty") /\ Returned
    /\ IF ~ret[1].ok THEN Propagate
       ELSE IF ~InBounds(index) THEN Panic(index, OutOfBounds)
       ELSE IF current(index).kind # "Equals"
            THEN Return(index, Err("parse_stmt", UnexpectedToken(
                     <<"Expected '=', got", current(index).kind>>,
                     current(index).span)))
            ELSE Call(advance(index),
                      [Top EXCEPT !.pc = "let_value", !.ty = Some(ret[1].val)],
                      Frame("parse_expr"))

\* `let` after its value
parse_stmt_let_value ==
    /\ At("parse_stmt", "let_value") /\ Returned
    /\ IF ~ret[1].ok THEN Propagate
       ELSE IF ~InBounds(index) THEN Panic(index, OutOfBounds)
       ELSE LET tok == current(Top.tok) IN
            stmt_end([node |-> "Assign",
                      name |-> Spanned(tok.text, tok.span),
                      ty |-> Top.ty[1],
                      value |-> ret[1].val,
                      span |-> extend(tok.span, current(index).span)], index)

\* `ret` after its expression
parse_stmt_ret ==
    /\ At("parse_stmt", "ret") /\ Returned
    /\ IF ~ret[1].ok THEN Propagate
       ELSE IF ~InBounds(index) THEN Panic(index, OutOfBounds)
       ELSE stmt_end([node |-> "Ret", expr |-> Some(ret[1].val),
                      span |-> current(index).span], index)

\* a bare expression
parse_stmt_expr ==
    /\ At("parse_stmt", "expr") /\ Returned
    /\ IF ~ret[1].ok THEN Propagate
       ELSE stmt_end(ret[1].val, index)

(***************************************************************************)
(* Parser::parse_expr                                                      *)
(***************************************************************************)
\* Ok(ast.span(token.span.extend(&self.current().span))), cursor at i
expr_end(node, token, i) ==
    IF ~InBounds(i) THEN Panic(i, OutOfBounds)
    ELSE Return(i, Ok("parse_expr",
             [node EXCEPT !.span = extend(token.span, current(i).span)]))

FuncCall(name, args) ==
    [node |-> "FuncCall", name |-> name, args |-> args, span |-> Span(0, 0)]

parse_expr ==
    /\ At("parse_expr", "start")
    /\ IF ~InBounds(index) THEN Panic(index, OutOfBounds)
       ELSE LET token == current(index)
                i1 == advance(index)
                i2 == advance(i1)
            IN
            CASE token.kind = "Dollar" ->
                    IF ~InBounds(i1) THEN Panic(i1, OutOfBounds)
                    ELSE IF current(i1).kind # "Identifier"
                    THEN Return(i1, Err("parse_expr", UnexpectedToken(
                             <<"Expected identifier">>, current(i1).span)))
                    ELSE LET f == [Top EXCEPT !.tok = index, !.name =
                                 Some(Spanned(current(i1).text, current(i1).span))]
                         IN  IF ~InBounds(i2) THEN Panic(i2, OutOfBounds)
                             ELSE IF current(i2).kind = "LParen"
                             THEN Goto(advance(i2), [f EXCEPT !.pc = "args"])
                             ELSE Call(i2, [f EXCEPT !.pc = "single"],
                                       Frame("parse_expr"))
              [] token.kind = "StringLiteral" ->
                    LET r == resolve_escapes(token.text, 1, FALSE, << >>) IN
                    IF r.panic THEN Panic(index, Unreachable)
                    ELSE expr_end([node |-> "StrLit", text |-> r.text,
                                   span |-> Span(0, 0)], token, i1)
              [] token.kind = "DecimalIntLiteral" ->
                    LET v == parse_iBig(token.text) IN
                    IF v = None
                    THEN Return(i1, Err("parse_expr", Report_at(
                             ReportKind_title("InvalidNumber",
                                              <<"Invalid integer literal">>),
                             token.span)))
                    ELSE expr_end([node |-> "UIntLit", int |-> v[1],
                                   span |-> Span(0, 0)], token, i1)
              [] token.kind = "Identifier" ->
                    expr_end([node |-> "Ident", text |-> token.text,
                              span |-> Span(0, 0)], token, i1)
              [] OTHER ->
                    Return(index, Err("parse_expr", UnexpectedToken(
                        <<"Expected expression">>, token.span)))

\* one turn of the argument loop of `$name(`
parse_expr_args ==
    /\ At("parse_expr", "args")
    /\ IF ~InBounds(index) THEN Panic(index, OutOfBounds)
       ELSE CASE current(index).kind = "RParen" ->
                    expr_end(FuncCall(Top.name[1], Top.acc), current(Top.tok),
                             advance(index))
              [] current(index).kind = "Comma" ->
                    Goto(advance(index), Top)
              [] current(index).kind = "EOF" ->
                    IF index - 1 < 0 THEN Panic(index, PeekAssert)
                    ELSE Return(index, Err("parse_expr",
                             Report_at(ReportKind_title("UnexpectedEOF",
                                                          <<"Expected ')'">>),
                                         peek_back_span(index))))
              [] OTHER ->
                    Call(index, [Top EXCEPT !.pc = "arg"], Frame("parse_expr"))

\* an argument came back
parse_expr_arg ==
    /\ At("parse_expr", "arg") /\ Returned
    /\ IF ~ret[1].ok THEN Propagate
       ELSE Goto(index, [Top EXCEPT !.pc = "args",
                                   !.acc = Append(Top.acc, ret[1].val)])

\* the single bare argument of `$name expr` came back
parse_expr_single ==
    /\ At("parse_expr", "single") /\ Returned
    /\ IF ~ret[1].ok THEN Propagate
       ELSE expr_end(FuncCall(Top.name[1], <<ret[1].val>>), current(Top.tok),
                     index)

(***************************************************************************)
(* Parser::parse_type                                                      *)
(***************************************************************************)
Type(t, n, inner, name, span) ==
    [ty |-> t, n |-> n, inner |-> inner, name |-> name, span |-> span]

InvalidWidth(hint, span) ==
    Report_at(Report_label(
        ReportKind_title("InvalidNumber", <<"Invalid integer in primitive type">>),
        hint), span)

starts_with(n, c) == Len(n) > 0 /\ n[1] = c

\* a primitive spelling: the letter's type with the parsed width, or the
\* InvalidNumber report
primitive(t, hint, token, i) ==
    LET w == parse_width(Tail1(token.text)) IN
    IF w = None
    THEN Return(i, Err("parse_type", InvalidWidth(hint, token.span)))
    ELSE Return(i, Ok("parse_type", Type(t, w[1], None, << >>, token.span)))

\* the match on the text of an Identifier token, in the order of its arms
type_of_identifier(token, i) ==
    LET n == token.text
        simple(t) == Return(i, Ok("parse_type",
                                  Type(t, 0, None, << >>, token.span)))
        wrapped(t) == Call(i, [Top EXCEPT !.pc = "inner", !.tok = index,
                                          !.via = t],
                           Frame("parse_type"))
    IN  IF n = Str_isize THEN simple("Isize")
        ELSE IF n = Str_usize THEN simple("Usize")
        ELSE IF starts_with(n, "u") THEN primitive("U", "try 'u8'", token, i)
        ELSE IF starts_with(n, "i") THEN primitive("I", "try 'i8'", token, i)
        ELSE IF starts_with(n, "b") THEN primitive("B", "try 'b8'", token, i)
        ELSE IF starts_with(n, "f") THEN primitive("F", "try 'f8'", token, i)
        ELSE IF n = Str_void THEN simple("Void")
        ELSE IF n = Str_never THEN simple("Never")
        ELSE IF n = Str_opt THEN wrapped("Opt")
        ELSE IF n = Str_mut THEN wrapped("Mut")
        ELSE Return(i, Ok("parse_type", Type("Ident", 0, None, n, token.span)))

parse_type ==
    /\ At("parse_type", "start")
    /\ IF ~InBounds(index) THEN Panic(index, OutOfBounds)
       ELSE LET token == current(index)
                i1 == advance(index)
            IN  CASE token.kind = "Star" ->
                        Call(i1, [Top EXCEPT !.pc = "inner", !.tok = index,
                                             !.via = "Ptr"],
                             Frame("parse_type"))
                  [] token.kind = "LBracket" ->
                        Call(i1, [Top EXCEPT !.pc = "arr", !.tok = index],
                             Frame("parse_type"))
                  [] token.kind = "Identifier" ->
                        type_of_identifier(token, i1)
                  [] OTHER ->
                        Return(i1, Err("parse_type", UnexpectedToken(
                            <<"Expected type">>, token.span)))

\* the pointee of `*`, or the type under `opt` or `mut`, came back
parse_type_inner ==
    /\ At("parse_type", "inner") /\ Returned
    /\ IF ~ret[1].ok THEN Propagate
       ELSE Return(index, Ok("parse_type",
                Type(Top.via, 0, Some(ret[1].val), << >>,
                     current(Top.tok).span)))

\* the element type of `[` came back: `]` is required
parse_type_arr ==
    /\ At("parse_type", "arr") /\ Returned
    /\ IF ~ret[1].ok THEN Propagate
       ELSE IF ~InBounds(index) THEN Panic(index, OutOfBounds)
       ELSE IF current(index).kind # "RBracket"
            THEN Return(index, Err("parse_type", UnexpectedToken(
                     <<"Expected ']'">>, current(index).span)))
            ELSE LET i1 == advance(index) IN
                 IF ~InBounds(i1) THEN Panic(i1, OutOfBounds)
                 ELSE Return(i1, Ok("parse_type",
                          Type("Arr", 0, Some(ret[1].val), << >>,
                               extend(current(Top.tok).span, current(i1).span))))

(***************************************************************************)
(* The token sequences the parser is run on.                               *)
(***************************************************************************)
RECURSIVE Cat(_)
Cat(ss) == IF Len(ss) = 0 THEN << >> ELSE Head(ss) \o Cat(Tail(ss))

SeqsUpTo(S, n) == UNION {[1..k -> S] : k \in 0..n}

Prefixes(s) == {SubSeq(s, 1, k) : k \in 0..Len(s)}

\* every kind the parser tells apart, and one (Plus) it has no use for
Alphabet ==
    {KWFn, KWExport, KWExtern, KWLet, KWRet, LParen, RParen, LBrace, RBrace,
     LBracket, RBracket, Semicolon, Colon, Comma, Equals, Dollar, Star, Plus,
     Id(Str_a), Id(Str_u8), StrLit(Str_atb), IntLit(Str_12), IntLit(Str_1a)}

\* arbitrary kinds, then the EOF token
ArbitraryInputs == {s \o <<EOF>> : s \in SeqsUpTo(Alphabet, MaxLen)}

\* the empty sequence and the one-token sequences
DegenerateInputs == {<< >>} \cup {<<t>> : t \in Alphabet \cup {EOF}}

Modifiers == SeqsUpTo({KWExport, KWExtern}, MaxMods)

ParamLists ==
    {<< >>,
     <<Id(Str_a), Colon, Id(Str_u32)>>,
     <<Id(Str_a), Colon, Id(Str_u32), Comma, Id(Str_b), Colon, Id(Str_u32)>>,
     <<Id(Str_a), Colon, Id(Str_u32), Id(Str_b), Colon, Id(Str_u32)>>,
     <<Id(Str_a), Colon, Id(Str_u32), Semicolon, Id(Str_b), Colon, Id(Str_u32)>>,
     <<Id(Str_a), Colon, Id(Str_u32), Plus, Id(Str_b), Colon, Id(Str_u32)>>,
     <<Id(Str_a), Colon, Star, Id(Str_u8)>>,
     <<Id(Str_a), Colon, LBracket, Id(Str_i8), RBracket>>,
     <<Id(Str_a), Colon, Id(Str_opt), Id(Str_T)>>,
     <<Id(Str_a), Colon, Id(Str_foo)>>}

\* nothing, a type, or `:` and a type
ReturnTypes ==
    {<< >>, <<Id(Str_u32)>>, <<Colon, Id(Str_u32)>>, <<Id(Str_void)>>,
     <<Colon, Id(Str_void)>>, <<Id(Str_Vec)>>, <<Id(Str_mut), Id(Str_T)>>}

RetA == <<KWRet, Id(Str_a), Semicolon>>

Bodies ==
    {<<Semicolon>>,
     <<LBrace, RBrace>>,
     <<LBrace>> \o RetA \o <<RBrace>>,
     <<Colon>> \o RetA,
     <<LBrace, KWLet, Id(Str_x), Colon, Id(Str_u8), Equals, IntLit(Str_999999),
       Semicolon, KWRet, Id(Str_x), Semicolon, RBrace>>,
     <<LBrace, KWRet, Id(Str_a), RBrace>>,
     <<LBrace, Id(Str_a), Id(Str_b), Semicolon>> \o RetA \o <<RBrace>>,
     <<LBrace>> \o RetA \o <<Plus, Semicolon, KWRet, Semicolon, RBrace>>,
     <<LBrace, Dollar, Id(Str_f), LParen, Id(Str_a), Comma, IntLit(Str_12),
       RParen, Semicolon, RBrace>>,
     <<LBrace, KWRet, Dollar, Id(Str_f), StrLit(Str_atb), Semicolon, RBrace>>,
     <<LBrace, KWRet, StrLit(Str_aBs), Semicolon, RBrace>>,
     <<LBrace, KWRet, StrLit(Str_Bsq), Semicolon, RBrace>>,
     <<LBrace, KWRet, IntLit(Str_1a), Semicolon>> \o RetA \o <<RBrace>>,
     <<Colon, IntLit(Str_1a), Semicolon>>,
     <<LBrace, Dollar, Id(Str_f), LParen, IntLit(Str_12), Comma, IntLit(Str_1a),
       RParen, Semicolon, RBrace>>,
     <<LBrace>> \o RetA}

Decl(mods, name, params, rty, body) ==
    mods \o <<KWFn, Id(name), LParen>> \o params \o <<RParen>> \o rty \o body

\* one declaration: every modifier list, return type and body; and every
\* parameter list with some of them
DeclInputs ==
    {Decl(m, Str_f, << >>, r, b) \o <<EOF>> :
        m \in Modifiers, r \in ReturnTypes, b \in Bodies}
    \cup
    {Decl(<< >>, Str_add, p, r, b) \o <<EOF>> :
        p \in ParamLists,
        r \in {<< >>, <<Id(Str_u32)>>, <<Colon, Id(Str_u32)>>},
        b \in {<<Semicolon>>, <<LBrace>> \o RetA \o <<RBrace>>}}

\* a declaration using most of the grammar, cut short at every token
LongDecl ==
    <<KWExport, KWFn, Id(Str_add), LParen, Id(Str_a), Colon, Id(Str_u32), Comma,
      Id(Str_b), Colon, LBracket, Id(Str_u8), RBracket, RParen, Id(Str_u32),
      LBrace, KWLet, Id(Str_x), Colon, Id(Str_u8), Equals, Dollar, Id(Str_f),
      LParen, Id(Str_a), Comma, IntLit(Str_12), RParen, Semicolon, KWRet,
      Id(Str_x), Semicolon, RBrace>>

TruncatedInputs == {s \o <<EOF>> : s \in Prefixes(LongDecl)}

\* one malformed global declaration
Malformed ==
    {<<Plus>>,
     <<RBrace>>,
     <<KWFn, LParen, RParen, Semicolon>>,
     <<KWFn, Id(Str_f), Semicolon>>,
     <<KWFn, Id(Str_f), LParen, Id(Str_a), RParen, Semicolon>>,
     <<KWFn, Id(Str_f), LParen, RParen, Plus, Semicolon>>,
     <<KWFn, Id(Str_f), LParen, RParen, Id(Str_void), Plus, Semicolon>>,
     <<KWExport, Semicolon>>,
     <<KWLet, Id(Str_x), Colon, Id(Str_u8), Equals, IntLit(Str_999999),
       Semicolon>>}

\* well-formed function declarations, each of which the parser accepts when
\* it stands alone (return type right after `)`, then the body marker)
WellFormed ==
    {Decl(<< >>, Str_f, << >>, <<Id(Str_void)>>, <<Semicolon>>),
     Decl(<<KWExport>>, Str_main, << >>, <<Id(Str_u32)>>,
          <<LBrace>> \o RetA \o <<RBrace>>)}

WellFormedSeqs == SeqsUpTo(WellFormed, MaxDecls)

RecoveryInputs ==
    {m \o Cat(ds) \o <<EOF>> : m \in Malformed \cup {<< >>}, ds \in WellFormedSeqs}

\* the two declarations written out in the specification's scenarios
ScenarioAdd ==
    Decl(<< >>, Str_add,
         <<Id(Str_a), Colon, Id(Str_u32), Comma, Id(Str_b), Colon, Id(Str_u32)>>,
         <<Colon, Id(Str_u32)>>, <<LBrace>> \o RetA \o <<RBrace>>) \o <<EOF>>

ScenarioMain ==
    Decl(<<KWExport>>, Str_main, << >>, <<Colon, Id(Str_void)>>, <<Semicolon>>)
        \o <<EOF>>

Inputs ==
    ArbitraryInputs \cup DegenerateInputs \cup DeclInputs \cup TruncatedInputs
        \cup RecoveryInputs \cup {ScenarioAdd, ScenarioMain}

\* main before it runs (the parser, the renderer and the builder are
\* explored on their own)
NotStarted == [pc |-> "start", code |-> 0]

(***************************************************************************)
(* The specification.                                                      *)
(***************************************************************************)
Init ==
    /\ tokens \in {MkTokens(s) : s \in Inputs}
    /\ index = 0
    /\ stack = <<Frame("parse")>>
    /\ ret = None
    /\ ast = << >>
    /\ logs = << >>
    /\ status = "run"
    /\ pending = << >>
    /\ rendered = << >>
    /\ ERR_COUNT = 0
    /\ draft = None
    /\ calls = << >>
    /\ main = NotStarted

Next ==
    \/ parse
    \/ parse_loop
    \/ parse_match
    \/ parse_skip
    \/ parse_global
    \/ parse_global_attrs
    \/ parse_func
    \/ parse_func_args
    \/ parse_func_arg
    \/ parse_func_body
    \/ parse_func_ret
    \/ parse_func_end
    \/ parse_block
    \/ parse_block_stmt
    \/ parse_block_skip
    \/ parse_stmt
    \/ parse_stmt_let_ty
    \/ parse_stmt_let_value
    \/ parse_stmt_ret
    \/ parse_stmt_expr
    \/ parse_expr
    \/ parse_expr_args
    \/ parse_expr_arg
    \/ parse_expr_single
    \/ parse_type
    \/ parse_type_inner
    \/ parse_type_arr

Spec == Init /\ [][Next]_vars

(***************************************************************************)
(* Rendering (impl Display for Report).  The reports to render are drawn   *)
(* from every kind; the parser stands still.                               *)
(***************************************************************************)
\* the `[prefix]` of the header line, for the levels that have one
prefix(level) ==
    IF level = "Fatal" THEN "Fatal"
    ELSE IF level = "Error" THEN "Error"
    ELSE IF level = "Warn" THEN "Warning"
    ELSE "Note"

\* Report::fmt on the first pending report: the assertion, the counter,
\* then the header; a Silent report reaches unreachable!()
fmt ==
    /\ Running /\ Len(pending) > 0
    /\ LET self == Head(pending)
           level == Report_level(self)
       IN  IF ~(self.span # None \/ self.label = None)
           THEN /\ status' = "panic: assertion failed"
                /\ UNCHANGED <<pending, rendered, ERR_COUNT>>
           ELSE /\ ERR_COUNT' =
                      IF Level_as_u8(level) >= Level_as_u8("Error")
                      THEN ERR_COUNT + 1 ELSE ERR_COUNT
                /\ pending' = Tail(pending)
                /\ IF level = "Silent"
                   THEN /\ status' = Unreachable
                        /\ rendered' = Append(rendered,
                              [kind |-> self.kind, level |-> level, header |-> None])
                   ELSE /\ status' = status
                        /\ rendered' = Append(rendered,
                              [kind |-> self.kind, level |-> level,
                               header |-> Some(<<prefix(level), self.kind>>)])
    /\ UNCHANGED <<tokens, index, stack, ret, ast, logs, draft, calls, main>>

RenderInit ==
    /\ tokens = << >>
    /\ index = 0
    /\ stack = << >>
    /\ ret = None
    /\ ast = << >>
    /\ logs = << >>
    /\ status = "run"
    /\ pending \in {[i \in 1..Len(ks) |->
                        Report_at(ReportKind_untitled(ks[i]), Span(0, 1))] :
                    ks \in SeqsUpTo(ReportKind, MaxReports)}
    /\ rendered = << >>
    /\ ERR_COUNT = 0
    /\ draft = None
    /\ calls = << >>
    /\ main = NotStarted

RenderNext == fmt

RenderSpec == RenderInit /\ [][RenderNext]_vars

(***************************************************************************)
(* Building a report (ReportKind::untitled / title, then chained calls).   *)
(***************************************************************************)
\* the spans and masks handed to Report::span
SpanArgs == {Span(0, 1), Span(1, 3)}
MaskArgs == {<< >>, <<"Caret">>, <<"Empty", "Caret">>, <<"Ghost", "Empty">>}

Built(r, c) ==
    /\ draft' = r
    /\ calls' = c
    /\ UNCHANGED <<tokens, index, stack, ret, ast, logs, status, pending,
                   rendered, ERR_COUNT, main>>

Build_untitled ==
    /\ draft = None
    /\ \E kind \in ReportKind : Built(Some(ReportKind_untitled(kind)), << >>)

Build_title ==
    /\ draft = None
    /\ \E kind \in {"UnexpectedToken", "UnexpectedEOF"} :
          Built(Some(ReportKind_title(kind, <<"Expected identifier">>)), << >>)

Build_span ==
    /\ draft # None /\ Len(calls) < MaxSpanCalls
    /\ \E s \in SpanArgs, mask \in MaskArgs :
          Built(Some(Report_span(draft[1], s, mask)),
                Append(calls, [span |-> s, mask |-> mask]))

Build_label ==
    /\ draft # None /\ draft[1].label = None
    /\ Built(Some(Report_label(draft[1], <<"here">>)), calls)

BuildInit ==
    /\ tokens = << >>
    /\ index = 0
    /\ stack = << >>
    /\ ret = None
    /\ ast = << >>
    /\ logs = << >>
    /\ status = "run"
    /\ pending = << >>
    /\ rendered = << >>
    /\ ERR_COUNT = 0
    /\ draft = None
    /\ calls = << >>
    /\ main = NotStarted

BuildNext ==
    \/ Build_untitled
    \/ Build_title
    \/ Build_span
    \/ Build_label

BuildSpec == BuildInit /\ [][BuildNext]_vars

(***************************************************************************)
(* The driver (fn main).  The handler's accumulated reports are `pending`, *)
(* the printed ones `rendered`.  The lexer and the parser are reduced to   *)
(* the reports they hand to the handler.                                   *)
(***************************************************************************)
LexerKinds ==
    {"UnexpectedCharacter", "UnterminatedStringLiteral", "_ERROR_", "_WARNING_"}
ParserKinds ==
    {"UnexpectedToken", "UnexpectedEOF", "_ERROR_", "_WARNING_"}

\* LogHandler::test_ge_log: some accumulated report is at least as severe
\* as the threshold (numerically not above it)
test_ge_log(threshold) ==
    \E n \in 1..Len(pending) :
        Level_as_u8(Report_level(pending[n])) <= threshold

\* the accumulated reports of one level, in submission order
RECURSIVE OfLevel(_, _)
OfLevel(rs, level) ==
    IF rs = << >> THEN << >>
    ELSE IF Report_level(Head(rs)) = level
         THEN <<Head(rs)>> \o OfLevel(Tail(rs), level)
         ELSE OfLevel(Tail(rs), level)

\* the accumulated reports, worst first
sorted(rs) ==
    OfLevel(rs, "Fatal") \o OfLevel(rs, "Error") \o OfLevel(rs, "Warn")
        \o OfLevel(rs, "Note")

Driver(pc, code, p, r) ==
    /\ main' = [pc |-> pc, code |-> code]
    /\ pending' = p
    /\ rendered' = r
    /\ UNCHANGED <<tokens, index, stack, ret, ast, logs, status, ERR_COUNT,
                   draft, calls>>

\* a stage hands one more report to the handler
Submit(kind) ==
    Append(pending, Report_at(ReportKind_untitled(kind), Span(0, 1)))

\* let handler = LogHandler::new()
main_start ==
    /\ main.pc = "start"
    /\ Driver("lex", 0, << >>, << >>)

\* lexer.lex_tokens(): zero or more reports, then the token list
main_lex ==
    /\ main.pc = "lex"
    /\ \/ /\ Len(pending) < MaxReports
          /\ \E kind \in LexerKinds : Driver("lex", 0, Submit(kind), rendered)
       \/ Driver("lexed", 0, pending, rendered)

\* if handler.test_ge_log(Level::Warn) { std::process::exit(1) }
main_lexed ==
    /\ main.pc = "lexed"
    /\ IF test_ge_log(Level_as_u8("Warn"))
       THEN Driver("exit", 1, pending, rendered)
       ELSE Driver("parse", 0, pending, rendered)

\* parser.parse(): zero or more reports
main_parse ==
    /\ main.pc = "parse"
    /\ \/ /\ Len(pending) < 2 * MaxReports
          /\ \E kind \in ParserKinds : Driver("parse", 0, Submit(kind), rendered)
       \/ Driver("parsed", 0, pending, rendered)

\* if handler.test_ge_log(Level::Warn) { std::process::exit(1) }
main_parsed ==
    /\ main.pc = "parsed"
    /\ IF test_ge_log(Level_as_u8("Warn"))
       THEN Driver("exit", 1, pending, rendered)
       ELSE Driver("terminate", 0, pending, rendered)

\* handler.terminate(): the final drain, worst first, then main returns
terminate ==
    /\ main.pc = "terminate"
    /\ LET rs == sorted(pending) IN
       Driver("exit", 0, << >>,
              [n \in 1..Len(rs) |->
                  [kind |-> rs[n].kind, level |-> Report_level(rs[n]),
                   header |-> Some(<<prefix(Report_level(rs[n])), rs[n].kind>>)]])

DriverInit ==
    /\ tokens = << >>
    /\ index = 0
    /\ stack = << >>
    /\ ret = None
    /\ ast = << >>
    /\ logs = << >>
    /\ status = "run"
    /\ pending = << >>
    /\ rendered = << >>
    /\ ERR_COUNT = 0
    /\ draft = None
    /\ calls = << >>
    /\ main = NotStarted

DriverNext ==
    \/ main_start
    \/ main_lex
    \/ main_lexed
    \/ main_parse
    \/ main_parsed
    \/ terminate

DriverSpec == DriverInit /\ [][DriverNext]_vars

(***************************************************************************)
(* Properties.                                                             *)
(***************************************************************************)
Halted == status # "run"
Panicked == status \notin {"run", "done"}

EndsInSingleEOF(t) ==
    /\ Len(t) > 0
    /\ t[Len(t)].kind = "EOF"
    /\ \A i \in 1..(Len(t) - 1) : t[i].kind # "EOF"

\* the tokens are this symbol sequence
Input(s) == tokens = MkTokens(s)

\* what just came back from function fn
Came(fn) == Returned /\ ret[1].from = fn

\* the name declared by a declaration's symbols
DeclName(d) ==
    LET i == CHOOSE i \in 1..Len(d) : d[i].kind = "KWFn" IN d[i + 1].text

IsType(t, ty, n) == t.ty = ty /\ t.n = n

IsRetIdent(node, text) ==
    /\ node.node = "Ret"
    /\ Len(node.expr) = 1
    /\ node.expr[1].node = "Ident"
    /\ node.expr[1].text = text

\* C1: on every token sequence (empty, one token, or ending in a single
\* EOF) parse runs to its end and returns the AST: it never panics and
\* never indexes outside the token sequence.
C1_ParseNeverPanics == ~Panicked

\* C2: on a token sequence that ends in a single EOF token no step moves the
\* cursor backwards or past the EOF token, so current() is always in range.
C2_CursorWithinTokens ==
    [][EndsInSingleEOF(tokens) =>
          /\ index' >= index
          /\ index' <= Len(tokens) - 1
          /\ status' # OutOfBounds]_vars

\* C3: after one malformed global declaration the parser resumes, and the
\* AST holds one Func node for each well-formed declaration that follows.
C3_RecoveryResumes ==
    Halted =>
        \A m \in Malformed : \A ds \in WellFormedSeqs :
            Input(m \o Cat(ds) \o <<EOF>>) =>
                /\ status = "done"
                /\ Len(ast) = Len(ds)
                /\ \A i \in 1..Len(ds) :
                      /\ ast[i].node = "Func"
                      /\ ast[i].name.text = DeclName(ds[i])

\* C4: `fn add(a: u32, b: u32): u32 { ret a; }` gives one Func node with no
\* attributes, two u32 parameters, return type u32 and the body `ret a`,
\* `export fn main(): void;` gives one Func node with an export attribute
\* and an empty body, and neither logs a report.
C4_ColonReturnType ==
    /\ (Halted /\ Input(ScenarioAdd)) =>
          /\ status = "done" /\ logs = << >> /\ Len(ast) = 1
          /\ ast[1].node = "Func"
          /\ ast[1].name.text = Str_add
          /\ ast[1].attrs = << >>
          /\ Len(ast[1].args) = 2
          /\ \A i \in 1..2 : IsType(ast[1].args[i][2], "U", 32)
          /\ Len(ast[1].ret) = 1 /\ IsType(ast[1].ret[1], "U", 32)
          /\ Len(ast[1].body) = 1 /\ IsRetIdent(ast[1].body[1], Str_a)
    /\ (Halted /\ Input(ScenarioMain)) =>
          /\ status = "done" /\ logs = << >> /\ Len(ast) = 1
          /\ ast[1].node = "Func"
          /\ ast[1].name.text = Str_main
          /\ Len(ast[1].attrs) = 1 /\ ast[1].attrs[1].attr = "Export"
          /\ Len(ast[1].ret) = 1 /\ IsType(ast[1].ret[1], "Void", 0)
          /\ ast[1].body = << >>

\* a declaration with no return type and the body b has been parsed to
\* the end of the input
NoReturnType(b) == Input(Decl(<< >>, Str_f, << >>, << >>, b) \o <<EOF>>)

\* C5: with no return type, each body marker (`:` statement, `{` statements
\* `}`, `;`) gives one Func node with ret = None and that body, logs no
\* report and leaves the cursor just after the closing delimiter.
C5_BodyMarkersWithoutReturnType ==
    \A b \in {<<Semicolon>>, <<Colon>> \o RetA, <<LBrace>> \o RetA \o <<RBrace>>,
              <<LBrace, RBrace>>} :
        /\ (NoReturnType(b) /\ Came("parse_func")) =>
              /\ ret[1].ok
              /\ ret[1].val.ret = None
              /\ index = Len(tokens) - 1
              /\ logs = << >>
              /\ IF Len(b) > 2
                 THEN /\ Len(ret[1].val.body) = 1
                      /\ IsRetIdent(ret[1].val.body[1], Str_a)
                 ELSE ret[1].val.body = << >>
        /\ (NoReturnType(b) /\ Halted) =>
              status = "done" /\ logs = << >> /\ Len(ast) = 1

\* C6: the span of every Func node returned by parse_func starts at the
\* declaration's `fn` keyword and ends at its closing `;` or `}`.
C6_FuncSpan ==
    (Came("parse_func") /\ ret[1].ok) =>
        LET sp == ret[1].val.span IN
        /\ tokens[sp.start + 1].kind = "KWFn"
        /\ tokens[sp.end].kind \in {"Semicolon", "RBrace"}

\* the number of export/extern tokens in a row from position i
RECURSIVE ModifierRun(_)
ModifierRun(i) ==
    IF InBounds(i) /\ current(i).kind \in {"KWExport", "KWExtern"}
    THEN 1 + ModifierRun(i + 1)
    ELSE 0

AttrOf(kind) == IF kind = "KWExtern" THEN "Extern" ELSE "Export"

\* C7: when k >= 1 export/extern tokens precede a declaration parse_func
\* accepts, parse_global returns that one Func node with exactly k
\* attributes, one per modifier with its kind and span, and with its span
\* extended to start at the first modifier.
C7_ModifiersBecomeAttrs ==
    [][(At("parse_global", "attrs") /\ Returned /\ ret[1].ok) =>
          LET first == Top.tok
              k == ModifierRun(first)
              inner == ret[1].val
          IN  /\ Len(ret') = 1 /\ ret'[1].ok /\ ret'[1].from = "parse_global"
              /\ LET r == ret'[1].val IN
                 /\ r.node = "Func"
                 /\ k >= 1
                 /\ current(first + k).kind = "KWFn"
                 /\ Len(r.attrs) = k
                 /\ \A j \in 0..(k - 1) :
                       r.attrs[k - j] = Attr(AttrOf(current(first + j).kind),
                                             current(first + j).span)
                 /\ r.span.start = current(first).span.start
                 /\ r.span.end = inner.span.end
                 /\ r.name = inner.name /\ r.args = inner.args
                 /\ r.ret = inner.ret /\ r.body = inner.body]_vars

\* two modifiers have become the two attributes of one Func node
C7_Witness ==
    /\ Came("parse_global") /\ ret[1].ok
    /\ Len(ret[1].val.attrs) = 2
    /\ ret[1].val.attrs[1].attr # ret[1].val.attrs[2].attr

\* a statement's own tokens have been parsed and its terminator is next
StatementParsed ==
    /\ Running /\ Len(stack) > 0 /\ Top.fn = "parse_stmt"
    /\ Top.pc \in {"expr", "ret", "let_value"}
    /\ Returned /\ ret[1].ok
    /\ InBounds(index)

MissingSemicolon(report) ==
    /\ report.kind = "UnexpectedToken"
    /\ Len(report.title) = 1
    /\ report.title[1][1] = "Expected ';', got"

\* C8: parse_stmt returns Ok only with the `;` after the statement consumed;
\* without it parse_stmt returns the UnexpectedToken error and no node, and
\* in a block parse_block logs that error, once, and adds no statement.
C8_StatementTerminator ==
    /\ []((Came("parse_stmt") /\ ret[1].ok) =>
             index >= 1 /\ tokens[index].kind = "Semicolon")
    /\ [](\A p, q \in 1..Len(logs) :
             (p # q /\ MissingSemicolon(logs[p])) => logs[p] # logs[q])
    /\ [][StatementParsed =>
             IF current(index).kind = "Semicolon"
             THEN /\ Len(ret') = 1 /\ ret'[1].ok /\ ret'[1].from = "parse_stmt"
                  /\ index' = index + 1
             ELSE /\ ret' = Some(Err("parse_stmt", UnexpectedToken(
                              <<"Expected ';', got", current(index).kind>>,
                              current(index).span)))
                  /\ index' = index]_vars
    /\ [][(At("parse_block", "stmt") /\ Returned /\ ~ret[1].ok) =>
             /\ logs' = Append(logs, ret[1].val)
             /\ stack'[Len(stack')].acc = Top.acc
             /\ status' = "run"]_vars

\* in a block, a statement without its `;` has just been logged
C8_Witness ==
    /\ At("parse_block", "skip")
    /\ Len(logs) > 0 /\ MissingSemicolon(logs[Len(logs)])
    /\ Len(Top.acc) > 0

\* an identifier that is neither a special name nor a letter u, i, b, f
\* followed by a valid width
UserDefined(n) ==
    /\ n \notin {Str_usize, Str_isize, Str_void, Str_never, Str_mut, Str_opt}
    /\ ~(/\ Len(n) > 0
         /\ n[1] \in {"u", "i", "b", "f"}
         /\ parse_width(Tail1(n)) # None)

\* C9: parse_type on such an identifier returns Type::Ident of its text and
\* produces no report, whatever the identifier's first letter.
C9_UserDefinedType ==
    [][(/\ At("parse_type", "start") /\ InBounds(index)
        /\ current(index).kind = "Identifier"
        /\ UserDefined(current(index).text)) =>
          /\ ret' = Some(Ok("parse_type",
                 Type("Ident", 0, None, current(index).text, current(index).span)))
          /\ logs' = logs]_vars

\* C10: Level::from is monotone in the kind's position (a later kind is at
\* least as severe, Fatal < Error < Warn < Note < Silent), and every kind
\* strictly between _ERROR_ and _FATAL_ is an Error.
C10_LevelFollowsPosition ==
    \A i, j \in 1..Len(rendered) :
        /\ discriminant(rendered[i].kind) < discriminant(rendered[j].kind) =>
              Level_as_u8(rendered[j].level) <= Level_as_u8(rendered[i].level)
        /\ (/\ discriminant("_ERROR_") < discriminant(rendered[i].kind)
            /\ discriminant(rendered[i].kind) < discriminant("_FATAL_")) =>
              rendered[i].level = "Error"

\* a sentinel and a kind between _ERROR_ and _FATAL_ have been rendered
C10_Witness ==
    /\ Len(rendered) = 2
    /\ rendered[1].kind = "UnexpectedToken" /\ rendered[1].level = "Error"
    /\ rendered[2].kind = "_ERROR_" /\ rendered[2].level = "Warn"

\* the masks of the calls c[1..n] combined in call order
RECURSIVE Combined(_, _)
Combined(c, n) ==
    IF n = 0 THEN << >> ELSE combine(Combined(c, n - 1), c[n].mask)

\* C11: after one or more Report::span calls the report's location is the
\* span of the first call, and its mask is the masks of all the calls
\* combined in call order.
C11_FirstSpanWins ==
    (draft # None /\ Len(calls) >= 1) =>
        /\ draft[1].span = Some(calls[1].span)
        /\ draft[1].span_mask = Combined(calls, Len(calls))

\* two span calls with different spans and two non-empty masks were made
C11_Witness ==
    /\ draft # None /\ Len(calls) = 2
    /\ calls[1].span # calls[2].span
    /\ calls[1].mask = <<"Empty", "Caret">> /\ calls[2].mask = <<"Ghost", "Empty">>
    /\ draft[1].span_mask = <<"Ghost", "Caret">>

\* the token at position p is an integer literal the big-integer parser rejects
RejectedLiteral(p) ==
    /\ InBounds(p)
    /\ current(p).kind = "DecimalIntLiteral"
    /\ parse_iBig(current(p).text) = None

\* the report parse_expr makes for the rejected literal at position p
LiteralReport(r, p) ==
    /\ r.kind = "InvalidNumber"
    /\ r.title = Some(<<"Invalid integer literal">>)
    /\ r.span = Some(current(p).span)

\* an Err on its way up the call stack
InFlight == Running /\ Returned /\ ~ret[1].ok

\* C12: a DecimalIntLiteral the big-integer parser rejects gets exactly one
\* InvalidNumber report in the log, with the literal's span, and no UIntLit
\* node: parse_expr returns that report, it travels up unchanged until it is
\* logged, it is logged once, and no UIntLit node is made from such a token.
C12_InvalidLiteralReportedOnce ==
    /\ [][(At("parse_expr", "start") /\ RejectedLiteral(index)) =>
             /\ Len(ret') = 1 /\ ~ret'[1].ok
             /\ LiteralReport(ret'[1].val, index)
             /\ logs' = logs]_vars
    /\ [][\A p \in 0..(Len(tokens) - 1) :
             (InFlight /\ RejectedLiteral(p) /\ LiteralReport(ret[1].val, p)) =>
                \/ /\ Len(ret') = 1 /\ ~ret'[1].ok /\ ret'[1].val = ret[1].val
                   /\ logs' = logs /\ status' = "run"
                \/ /\ ret' = None
                   /\ logs' = Append(logs, ret[1].val)]_vars
    /\ [](\A p \in 0..(Len(tokens) - 1) :
             /\ (InFlight /\ LiteralReport(ret[1].val, p)) =>
                   \A n \in 1..Len(logs) : logs[n] # ret[1].val
             /\ \A m, n \in 1..Len(logs) :
                   (LiteralReport(logs[m], p) /\ LiteralReport(logs[n], p)) =>
                      m = n
             /\ (\E n \in 1..Len(logs) : LiteralReport(logs[n], p)) =>
                   RejectedLiteral(p))
    /\ []((Came("parse_expr") /\ ret[1].ok /\ ret[1].val.node = "UIntLit") =>
             ~RejectedLiteral(ret[1].val.span.start))

\* the parse is over and the rejected literal has its report in the log
C12_Witness ==
    /\ status = "done"
    /\ \E p \in 0..(Len(tokens) - 1) :
          /\ RejectedLiteral(p)
          /\ \E n \in 1..Len(logs) : LiteralReport(logs[n], p)

\* C13: when main exits with failure after test_ge_log found a report at or
\* above the threshold, every accumulated report has been printed: none is
\* left in the handler at the exit.
C13_AbortAfterDrain ==
    (main.pc = "exit" /\ main.code = 1) =>
        /\ pending = << >>
        /\ Len(rendered) > 0

\* the number of backslashes at the end of text[1..n]
RECURSIVE TrailingBackslashes(_, _)
TrailingBackslashes(text, n) ==
    IF n >= 1 /\ text[n] = "\\" THEN 1 + TrailingBackslashes(text, n - 1) ELSE 0

\* the text ends with a backslash that no backslash before it escapes
EndsWithLoneBackslash(text) == TrailingBackslashes(text, Len(text)) % 2 = 1

\* C14: parse_expr on a StringLiteral whose text ends with a single
\* unescaped backslash fails in a defined way: it returns an Err, it does
\* not panic and it does not return a StrLit node.
C14_TrailingBackslashFails ==
    [][(/\ At("parse_expr", "start") /\ InBounds(index)
        /\ current(index).kind = "StringLiteral"
        /\ EndsWithLoneBackslash(current(index).text)) =>
          /\ status' = "run"
          /\ Len(ret') = 1 /\ ~ret'[1].ok]_vars

\* C15: after parse_global fails at top level, parse logs the report and
\* skips only until the first `;`, `}` or EOF: a skipping step that stands
\* on the EOF token does not advance, and the top-level loop ends there.
C15_RecoveryStopsAtEOF ==
    /\ [][(At("parse", "global") /\ Returned /\ ~ret[1].ok) =>
             logs' = Append(logs, ret[1].val)]_vars
    /\ [][(/\ At("parse", "skip") /\ InBounds(index)
           /\ current(index).kind = "EOF") =>
             /\ index' = index
             /\ status' = "done"]_vars

\* the top frame is in the body of the top-level loop or of the block loop,
\* past the call of parse_global / parse_stmt that started at Top.tok
InIteration ==
    \/ At("parse", "global") /\ Returned
    \/ At("parse", "skip")
    \/ At("parse_block", "stmt") /\ Returned
    \/ At("parse_block", "skip")

\* the step ends the iteration: back at the loop head, or out of the loop
IterationEnds ==
    \/ status' = "done"
    \/ Len(stack') < Len(stack)
    \/ /\ Len(stack') = Len(stack)
       /\ stack'[Len(stack')].pc \in {"loop", "start"}

\* C16: every iteration of the top-level loop and of the block loop, the
\* recovering ones included, ends with the cursor at least one token after
\* the place where its parse_global or parse_stmt call started.
C16_RecoveryAdvances ==
    /\ [][(InIteration /\ IterationEnds) => index' > Top.tok]_vars
    /\ [][(/\ \/ At("parse", "global") /\ Returned /\ ~ret[1].ok
              \/ At("parse_block", "stmt") /\ Returned /\ ~ret[1].ok
           /\ status' = "run") =>
             /\ stack'[Len(stack')].pc = "skip"
             /\ stack'[Len(stack')].tok = Top.tok]_vars
    /\ [](At("parse", "skip") \/ At("parse_block", "skip") => index >= Top.tok)

\* a statement that failed without consuming a token has been recovered
\* from and the block loop is back at its head
C16_Witness ==
    /\ At("parse_block", "start")
    /\ Len(logs) > 0
    /\ logs[Len(logs)].span = Some(current(Top.tok).span)
    /\ current(Top.tok).kind = "Plus"
    /\ index = Top.tok + 2
    /\ tokens[index].kind = "Semicolon"

\* `fn f() void { ret a; + ; ret ; }`: a bad statement between two good ones
BadBetween ==
    Decl(<< >>, Str_f, << >>, <<Id(Str_void)>>,
         <<LBrace>> \o RetA \o <<Plus, Semicolon, KWRet, Semicolon, RBrace>>)
        \o <<EOF>>

\* `fn f() void { ret a }`: the bad statement is stopped by the closing `}`
BadLast ==
    Decl(<< >>, Str_f, << >>, <<Id(Str_void)>>, <<LBrace, KWRet, Id(Str_a), RBrace>>)
        \o <<EOF>>

\* C17: when parse_stmt fails inside parse_block the report is logged and
\* the tokens up to and including the next `;` or `}` are consumed; at `}`
\* the block ends, so what follows the block is never its closing `}`; and
\* parse_block returns Ok with the statements parsed before and after the
\* bad one, in source order.
C17_BlockRecovery ==
    /\ [][(At("parse_block", "stmt") /\ Returned /\ ~ret[1].ok) =>
             /\ logs' = Append(logs, ret[1].val)
             /\ index' = index
             /\ stack' = Append(Pop, [Top EXCEPT !.pc = "skip"])]_vars
    /\ [][(At("parse_block", "skip") /\ InBounds(index)) =>
             /\ index' = index + 1
             /\ logs' = logs
             /\ IF current(index).kind = "RBrace"
                THEN /\ ret' = Some(Ok("parse_block", Top.acc))
                     /\ stack' = Pop
                ELSE IF current(index).kind = "Semicolon"
                     THEN stack' = Append(Pop, [Top EXCEPT !.pc = "start"])
                     ELSE stack' = stack]_vars
    /\ []((Came("parse_block") /\ ret[1].ok) =>
             /\ index >= 1 /\ tokens[index].kind = "RBrace"
             /\ \A m, n \in 1..Len(ret[1].val) :
                   m < n => ret[1].val[m].span.start < ret[1].val[n].span.start)
    /\ []((Came("parse_block") /\ Input(BadBetween)) =>
             /\ ret[1].ok /\ Len(ret[1].val) = 2 /\ Len(logs) = 1
             /\ IsRetIdent(ret[1].val[1], Str_a)
             /\ ret[1].val[2].node = "Ret" /\ ret[1].val[2].expr = None
             /\ current(index).kind = "EOF")
    /\ []((Came("parse_block") /\ Input(BadLast)) =>
             /\ ret[1].ok /\ ret[1].val = << >> /\ Len(logs) = 1
             /\ current(index).kind = "EOF")
    /\ []((Halted /\ (Input(BadBetween) \/ Input(BadLast))) =>
             /\ status = "done" /\ Len(ast) = 1 /\ Len(logs) = 1
             /\ ast[1].node = "Func")

\* the block with the bad statement in the middle has returned its two
\* good statements
C17_Witness ==
    /\ Came("parse_block") /\ Input(BadBetween)
    /\ ret[1].ok /\ Len(ret[1].val) = 2 /\ Len(logs) = 1

\* C18: parse_func accepts a parameter list only when consecutive
\* `name: Type` pairs are separated by a `,`: in every Func node it returns,
\* the token right before the name of each parameter after the first is a
\* Comma (any other token there, or none, gives an error and no node).
C18_CommaSeparatedParams ==
    (Came("parse_func") /\ ret[1].ok) =>
        \A j \in 2..Len(ret[1].val.args) :
            tokens[ret[1].val.args[j][1].span.start].kind = "Comma"

\* the renderings among rs[1..n] of reports whose level is Error or Fatal
RECURSIVE ErrorRenderings(_, _)
ErrorRenderings(rs, n) ==
    IF n = 0 THEN 0
    ELSE ErrorRenderings(rs, n - 1)
            + (IF rs[n].level \in {"Error", "Fatal"} THEN 1 ELSE 0)

\* C19: ERR_COUNT goes up by one for each rendering of a report whose level
\* is Error or Fatal and stays as it is for a Warn or Note report, so it
\* always equals the number of Error-or-worse renderings so far (a Silent
\* report is not rendered: it ends the run in unreachable!()).
C19_ErrCountCountsErrors ==
    Running =>
        /\ ERR_COUNT = ErrorRenderings(rendered, Len(rendered))
        /\ \A n \in 1..Len(rendered) :
              rendered[n].level \in {"Warn", "Note"} =>
                 ERR_COUNT <= Len(rendered) - 1

====
